---- MODULE Spec2Model ----
(***************************************************************************)
(* Model of the research-source pipeline of thnk-backend:                  *)
(*   services/aiServices.js  getEnhancedSmartResponseWithSources and the   *)
(*                           functions it calls (lines 1-849),             *)
(*   services/scrapper.js    validateUrl / scrapeWebsite in the version    *)
(*                           that returns raw text (unnamed/part_003),     *)
(*                           and validateMultipleUrls,                     *)
(*   services/userHistory    the history functions (unnamed/part_005) with *)
(*                           the handlers of controllers/historyController *)
(*                           and processUserPrompt of thnkController.      *)
(* Scores are integers in hundredths (0.5 is 50).  A JavaScript value that *)
(* may be absent is a sequence: << >> is undefined, <<v>> is the value v.  *)
(* A string the code scans with regular expressions (a URL) is a sequence  *)
(* of tokens; null and the empty string are both << >>.                    *)
(***************************************************************************)
EXTENDS Integers, Sequences, FiniteSets, TLC

VARIABLES
    prompt,            \* req.body.prompt as the controller passes it on
    pc,                \* position inside getEnhancedSmartResponseWithSources
    summary,           \* initialResponse of getReliableSourcesWithFallback
    sourcesAnalysis,   \* result of getActualSourcesUsed
    idx,               \* loop index of validateAndEnrichSourcesWithScraping
    validatedSources,  \* the list validateAndEnrichSourcesWithScraping builds
    cleanedUrl,        \* cleanedUrl of the current loop iteration
    retries,           \* parameter retries of the running scrapeWebsite call
    scrapedData,       \* what scrapeWebsite returned for the current candidate
    analysis,          \* result of getNeutralityAndSentiment for the candidate
    reqLog,            \* requests sent by the current top-level scrapeWebsite
    emitLog,           \* per processed candidate: "dropped", or the branch
                       \* that pushed its source
    stages,            \* the orchestrator's calls so far, in order
    caught,            \* catch blocks of the orchestrator that have run
    outcome,           \* "pending", "resolved" or "rejected"
    result,            \* the object getEnhancedSmartResponseWithSources returns
    liveUrls,          \* URLs a HEAD probe of this invocation found live
    call,              \* a direct call of one helper function: its name,
                       \* arguments and return value
    urls,              \* validateMultipleUrls: parameter urls
    concurrency,       \* validateMultipleUrls: parameter concurrency
    offset,            \* validateMultipleUrls: the loop variable i
    pending,           \* positions of urls whose request is in flight
    batchResults,      \* what the requests of the current batch resolved to
    results,           \* validateMultipleUrls: the array results
    bpc,               \* position inside validateMultipleUrls
    history,           \* the SearchHistory collection
    cached,            \* the _id of every document of the ScrapedContent
                       \* collection
    owner,             \* per _id ever created, the userId of the save that
                       \* created the document
    nextId,            \* the next fresh _id
    calls,             \* the HTTP requests being handled, one per slot
    requests,          \* number of requests received so far
    failures           \* number of database operations that have thrown

vars == <<prompt, pc, summary, sourcesAnalysis, idx, validatedSources,
          cleanedUrl, retries, scrapedData, analysis, reqLog, emitLog,
          stages, caught, outcome, result, liveUrls, call,
          urls, concurrency, offset, pending, batchResults, results, bpc,
          history, cached, owner, nextId, calls, requests, failures>>

\* the variables of a run of getEnhancedSmartResponseWithSources
pipelineVars == <<prompt, pc, summary, sourcesAnalysis, idx, validatedSources,
                  cleanedUrl, retries, scrapedData, analysis, reqLog, emitLog,
                  stages, caught, outcome, result, liveUrls>>

\* the variables of a run of validateMultipleUrls
batchVars == <<urls, concurrency, offset, pending, batchResults, results, bpc>>

\* the variables of the server: the two collections and the running requests
serverVars == <<history, cached, owner, nextId, calls, requests, failures>>

----------------------------------------------------------------------------
(* Bounds of the model *)

\* longest source list the generative backend returns in one reply
MaxCandidates == 2

----------------------------------------------------------------------------
(* JavaScript values *)

Undefined == << >>

Some(v) == <<v>>

\* x || d on a number that may be absent: undefined and 0 are falsy
OrDefault(x, d) == IF x = Undefined \/ x = Some(0) THEN d ELSE x[1]

Max(a, b) == IF a >= b THEN a ELSE b

Min(a, b) == IF a <= b THEN a ELSE b

----------------------------------------------------------------------------
(* URL strings as token sequences.  The first token of a well formed URL   *)
(* is its head (scheme, host and path); the tokens after it are the query  *)
(* separators and parameters.                                              *)

Null == << >>

\* a truthy url that is not a string (a number in the reply's JSON)
NonStringUrl == <<"#number">>

FbclidTokens == {"fbclid=123"}

UtmTokens == {"utm_source=y", "utm_medium=z"}

\* [scheme, hostname labels] of every head the model uses
HeadTable ==
    [h \in {"https://www.nasa.gov/a", "https://x.com/a", "https://mit.edu/a",
            "https://www.bbc.com/news", "https://who.org/a",
            "javascript:alert(1)", "x.com/a",
            "https://www.cdc.gov/", "https://www.nih.gov/", "https://www.who.int/",
            "https://www.nutrition.gov/",
            "https://www.hsph.harvard.edu/nutritionsource/",
            "https://www.eatright.org/", "https://www.wikipedia.org/",
            "https://www.britannica.com/", "https://www.sciencedaily.com/"} |->
        CASE h = "https://www.nasa.gov/a" -> [protocol |-> "https:", hostname |-> <<"www", "nasa", "gov">>]
          [] h = "https://x.com/a" -> [protocol |-> "https:", hostname |-> <<"x", "com">>]
          [] h = "https://mit.edu/a" -> [protocol |-> "https:", hostname |-> <<"mit", "edu">>]
          [] h = "https://www.bbc.com/news" -> [protocol |-> "https:", hostname |-> <<"www", "bbc", "com">>]
          [] h = "https://who.org/a" -> [protocol |-> "https:", hostname |-> <<"who", "org">>]
          [] h = "javascript:alert(1)" -> [protocol |-> "javascript:", hostname |-> << >>]
          [] h = "x.com/a" -> [protocol |-> "", hostname |-> << >>]
          [] h = "https://www.cdc.gov/" -> [protocol |-> "https:", hostname |-> <<"www", "cdc", "gov">>]
          [] h = "https://www.nih.gov/" -> [protocol |-> "https:", hostname |-> <<"www", "nih", "gov">>]
          [] h = "https://www.who.int/" -> [protocol |-> "https:", hostname |-> <<"www", "who", "int">>]
          [] h = "https://www.nutrition.gov/" -> [protocol |-> "https:", hostname |-> <<"www", "nutrition", "gov">>]
          [] h = "https://www.hsph.harvard.edu/nutritionsource/" -> [protocol |-> "https:", hostname |-> <<"www", "hsph", "harvard", "edu">>]
          [] h = "https://www.eatright.org/" -> [protocol |-> "https:", hostname |-> <<"www", "eatright", "org">>]
          [] h = "https://www.wikipedia.org/" -> [protocol |-> "https:", hostname |-> <<"www", "wikipedia", "org">>]
          [] h = "https://www.britannica.com/" -> [protocol |-> "https:", hostname |-> <<"www", "britannica", "com">>]
          [] OTHER -> [protocol |-> "https:", hostname |-> <<"www", "sciencedaily", "com">>]]

IsHead(t) == t \in DOMAIN HeadTable

\* new URL(string): the parse succeeds when the string starts with an
\* absolute head; a relative reference or a bare query throws
UrlParses(s) == Len(s) > 0 /\ IsHead(s[1]) /\ HeadTable[s[1]].protocol # ""

\* index of the last token [^&]* consumes when the parameter starts at k
RECURSIVE ValueEnd(_, _)
ValueEnd(s, k) ==
    IF k + 1 <= Len(s) /\ s[k + 1] # "&" THEN ValueEnd(s, k + 1) ELSE k

\* the text after a match of ([?&])name=[^&]*(&|$) whose parameter is at k
AfterMatch(s, k) ==
    LET e == ValueEnd(s, k)
    IN  IF e + 1 <= Len(s) THEN SubSeq(s, e + 2, Len(s)) ELSE << >>

IsParamMatch(s, i, names) ==
    /\ i + 1 <= Len(s)
    /\ s[i] \in {"?", "&"}
    /\ s[i + 1] \in names

\* s.replace(/([?&])fbclid=[^&]*(&|$)/, "$1"): the first match only
ReplaceFirstFbclid(s) ==
    LET hits == {i \in 1..Len(s) : IsParamMatch(s, i, FbclidTokens)}
    IN  IF hits = {} THEN s
        ELSE LET i == CHOOSE j \in hits : \A k \in hits : j <= k
             IN  SubSeq(s, 1, i) \o AfterMatch(s, i + 1)

\* s.replace(/([?&])utm_[^&]*(&|$)/g, "$1"): every match, scanning on after
\* the text the previous match consumed (its closing & included)
RECURSIVE ReplaceAllUtm(_)
ReplaceAllUtm(s) ==
    LET hits == {i \in 1..Len(s) : IsParamMatch(s, i, UtmTokens)}
    IN  IF hits = {} THEN s
        ELSE LET i == CHOOSE j \in hits : \A k \in hits : j <= k
             IN  SubSeq(s, 1, i) \o ReplaceAllUtm(AfterMatch(s, i + 1))

StripTrailing(s, t) ==
    IF Len(s) > 0 /\ s[Len(s)] = t THEN SubSeq(s, 1, Len(s) - 1) ELSE s

cleanUrl(url) ==
    IF url = Null \/ url = NonStringUrl THEN Null
    ELSE StripTrailing(StripTrailing(ReplaceAllUtm(ReplaceFirstFbclid(url)),
                                     "&"), "?")

\* isValidUrl without the test of url.protocol
isValidUrlAnyProtocol(s) == UrlParses(s)

isValidUrl(s) ==
    UrlParses(s) /\ HeadTable[s[1]].protocol \in {"http:", "https:"}

\* domain.replace("www.", ""): the first "www." of the hostname is removed
RECURSIVE DropFirstWww(_)
DropFirstWww(labels) ==
    IF Len(labels) <= 1 THEN labels
    ELSE IF labels[1] = "www" THEN Tail(labels)
    ELSE <<labels[1]>> \o DropFirstWww(Tail(labels))

extractDomain(url) ==
    IF UrlParses(url) THEN DropFirstWww(HeadTable[url[1]].hostname) ELSE Null

----------------------------------------------------------------------------
(* calculateCredibilityScore *)

\* labels that start with the text: domain.includes(".edu") holds when a
\* label after the first one starts with "edu"
LabelsStarting(text) ==
    CASE text = "edu" -> {"edu", "education"}
      [] text = "gov" -> {"gov", "government"}
      [] text = "org" -> {"org", "organic"}
      [] OTHER -> {"com", "community"}

DomainIncludesDot(domain, text) ==
    \E i \in 2..Len(domain) : domain[i] \in LabelsStarting(text)

trustedNews == {"reuters", "apnews", "bbc", "npr", "pbs"}

\* labels of the model that contain the name of a trusted outlet
DomainIncludesNews(domain) ==
    \E i \in 1..Len(domain) : domain[i] \in trustedNews \cup {"bbcnews"}

typeScores ==
    [t \in {"academic", "government", "scientific_journal", "established_news",
            "news", "organization", "general"} |->
        CASE t \in {"academic", "scientific_journal"} -> 90
          [] t = "government" -> 85
          [] t = "established_news" -> 80
          [] t \in {"news", "organization"} -> 70
          [] OTHER -> 50]

DomainScore(domain) ==
    IF domain = Null THEN 50
    ELSE IF DomainIncludesDot(domain, "edu") THEN 90
    ELSE IF DomainIncludesDot(domain, "gov") THEN 85
    ELSE IF DomainIncludesDot(domain, "org") THEN 70
    ELSE IF DomainIncludesDot(domain, "com")
         THEN (IF DomainIncludesNews(domain) THEN 80 ELSE 60)
    ELSE 50

\* sourceType is a string or "undefined"
calculateCredibilityScore(domain, sourceType) ==
    LET score == DomainScore(domain)
        typed == IF sourceType \in DOMAIN typeScores
                 THEN Max(score, typeScores[sourceType]) ELSE score
    IN  Max(10, Min(100, typed))

----------------------------------------------------------------------------
(* Inputs: the prompt, the replies of the generative backend, the network *)

\* A prompt string is the set of keywords it contains; a prompt that is not
\* a string is a JSON number (no substring, no slice, no toLowerCase) or a
\* JSON array (slice, but neither substring nor toLowerCase).
Prompts ==
    {[kind |-> "string", words |-> {}],
     [kind |-> "string", words |-> {"disease", "diet"}],
     [kind |-> "string", words |-> {"food"}],
     [kind |-> "number", words |-> {}],
     [kind |-> "array", words |-> {}]}

\* Source objects the generative backend may put into its reply.  title and
\* contentSnippet are "string", "undefined" or "number" (truthy, no string).
\* The reply's schema names url, title, contentSnippet, domain and
\* sourceType; the reply is parsed JSON and may carry any other member.
CandidatePool ==
    <<[url |-> <<"https://www.nasa.gov/a">>, title |-> "string",
       contentSnippet |-> "string", domain |-> <<"nasa", "gov">>,
       sourceType |-> "government", confidence |-> Some(90),
       credibilityScore |-> Undefined, contentSource |-> "undefined",
       predefined |-> FALSE],
      [url |-> <<"https://x.com/a", "?", "fbclid=123", "&", "utm_source=y">>,
       title |-> "string", contentSnippet |-> "undefined",
       domain |-> <<"x", "com">>, sourceType |-> "academic",
       confidence |-> Some(50), credibilityScore |-> Some(500),
       contentSource |-> "direct_scraping", predefined |-> TRUE],
      [url |-> <<"javascript:alert(1)">>, title |-> "string",
       contentSnippet |-> "string", domain |-> <<"x", "com">>,
       sourceType |-> "news", confidence |-> Some(90),
       credibilityScore |-> Undefined, contentSource |-> "undefined",
       predefined |-> FALSE],
      [url |-> <<"https://who.org/a">>, title |-> "undefined",
       contentSnippet |-> "number", domain |-> <<"who", "int">>,
       sourceType |-> "undefined", confidence |-> Undefined,
       credibilityScore |-> Undefined, contentSource |-> "undefined",
       predefined |-> FALSE],
      [url |-> <<"x.com/a", "?", "utm_source=y", "&", "utm_medium=z">>,
       title |-> "string", contentSnippet |-> "string",
       domain |-> <<"x", "com">>, sourceType |-> "general",
       confidence |-> Some(90), credibilityScore |-> Undefined,
       contentSource |-> "undefined", predefined |-> FALSE],
      [url |-> NonStringUrl, title |-> "string", contentSnippet |-> "string",
       domain |-> <<"x", "com">>, sourceType |-> "general",
       confidence |-> Some(90), credibilityScore |-> Undefined,
       contentSource |-> "undefined", predefined |-> FALSE],
      [url |-> Null, title |-> "string", contentSnippet |-> "string",
       domain |-> <<"x", "com">>, sourceType |-> "general",
       confidence |-> Some(90), credibilityScore |-> Undefined,
       contentSource |-> "undefined", predefined |-> FALSE]>>

\* the members of the pool at the indexes in picked, in the pool's order
RECURSIVE Picked(_)
Picked(picked) ==
    IF picked = {} THEN << >>
    ELSE LET least == CHOOSE i \in picked : \A k \in picked : i <= k
         IN  <<CandidatePool[least]>> \o Picked(picked \ {least})

\* the source lists of a reply: up to MaxCandidates members of the pool
CandidateLists ==
    {Picked(picked) : picked \in
        {x \in SUBSET (1..Len(CandidatePool)) : Cardinality(x) <= MaxCandidates}}

\* What ai.models.generateContent did: it threw, or it returned a response
\* without text, with more than 100000 characters, with text that does not
\* start and end with JSON delimiters, with delimited text that does not
\* parse, or with JSON text.
ReplyKinds ==
    {"throws", "notext", "toolarge", "plain", "scalar", "badjson", "json"}

\* What generateContent does for each kind: it throws, or it returns a
\* response whose text is missing or present; a text is or is not longer
\* than 100000 characters, does or does not start and end with {} or []
\* after trim(), and is or is not accepted by JSON.parse.  "scalar" is a
\* JSON number or string; "toolarge" is an oversized, well formed object.
Reply(kind) ==
    [throws |-> kind = "throws",
     hasText |-> kind \notin {"throws", "notext"},
     tooLarge |-> kind = "toolarge",
     delimited |-> kind \in {"toolarge", "badjson", "json"},
     parses |-> kind \in {"toolarge", "scalar", "json"}]

\* callAI reaches the call JSON.parse(text)
ParseAttempted(kind) ==
    /\ ~Reply(kind).throws
    /\ Reply(kind).hasText
    /\ ~Reply(kind).tooLarge
    /\ Reply(kind).delimited

\* a variant of callAI without the test text.length > 100000
callAIAnyLength(kind, value, fallbackValue) ==
    IF Reply(kind).throws THEN fallbackValue
    ELSE IF ~Reply(kind).hasText THEN fallbackValue
    ELSE IF Reply(kind).delimited
         THEN (IF Reply(kind).parses THEN value ELSE fallbackValue)
    ELSE fallbackValue

\* callAI: value is what JSON.parse returns when it accepts the text
callAI(kind, value, fallbackValue) ==
    IF Reply(kind).throws THEN fallbackValue
    ELSE IF ~Reply(kind).hasText THEN fallbackValue
    ELSE IF Reply(kind).tooLarge THEN fallbackValue
    ELSE IF Reply(kind).delimited
         THEN (IF Reply(kind).parses THEN value ELSE fallbackValue)
    ELSE fallbackValue

\* the fallback values getNeutralityAndSentiment, getTagsFromAI and
\* getBiasAnalysisInsights hand to callAI
SentimentFallback ==
    [neutralityScore |-> Some(50), sentimentScore |-> Some(50)]

TagsFallback == [isArray |-> TRUE, items |-> << >>]

InsightFallback == "getFallbackBiasAnalysis()"

\* what a well formed reply to getBiasAnalysisInsights parses to
InsightValues == {"insights"}

\* JSON values a reply to getNeutralityAndSentiment may parse to
AnalysisValues ==
    {[neutralityScore |-> Some(0), sentimentScore |-> Some(80)],
     [neutralityScore |-> Some(150), sentimentScore |-> Undefined]}

\* JSON values a reply to getTagsFromAI may parse to: an array, or an object
TagValues == {[isArray |-> TRUE, items |-> <<"t">>],
              [isArray |-> FALSE, items |-> << >>]}

\* overallNeutrality / overallPersuasion of a reply to getActualSourcesUsed
OverallValues ==
    {[overallNeutrality |-> Some(80), overallPersuasion |-> Undefined]}

\* the sources member of that reply: an array of objects, an array holding
\* null, no member at all, or an object that is no array
SourcesShapes == {"array", "arrayWithNull", "undefined", "object"}

\* HTTP status of a response; 0 stands for no response (timeout, DNS,
\* connection refused)
HeadStatuses == {200, 404, 503, 0}

GetStatuses == {200, 403, 404, 500, 0}

\* extracted body text of a 200 page: at least 100 characters, or fewer
PageContents == {"enough", "short"}

----------------------------------------------------------------------------
(* Initial state *)

NoAnalysis == [neutralityScore |-> Undefined, sentimentScore |-> Undefined]

NoSourcesAnalysis ==
    [overallNeutrality |-> Undefined, overallPersuasion |-> Undefined,
     shape |-> "undefined", sources |-> << >>]

\* sourceMetrics and researchQuality before the response is assembled
NoMetrics ==
    [neutralityRange |-> [min |-> 0, max |-> 0],
     diversityScore |-> [num |-> 0, den |-> 1],
     scoreVariance |-> [num |-> 0, den |-> 1],
     credibilityAverage |-> [num |-> 0, den |-> 1],
     balancedPerspectives |-> FALSE,
     sourceTypes |-> {}]

NoQuality == [qualityScore |-> 0, factors |-> << >>, rating |-> ""]

NoResult ==
    [summary |-> "", neutralityScore |-> 0, persuasionScore |-> 0,
     sources |-> << >>, fallback |-> FALSE, usedFallback |-> FALSE,
     biasAnalysis |-> "", sourceMetrics |-> NoMetrics,
     researchQuality |-> NoQuality, sourcesValidated |-> FALSE]

NoCall == [fn |-> "none", args |-> << >>, result |-> << >>]

\* no run of validateMultipleUrls
BatchIdle ==
    /\ urls = << >>
    /\ concurrency = 1
    /\ offset = 0
    /\ pending = {}
    /\ batchResults = {}
    /\ results = << >>
    /\ bpc = "idle"

\* empty collections, no request
ServerIdle ==
    /\ history = {}
    /\ cached = {}
    /\ owner = << >>
    /\ nextId = 1
    /\ calls = << >>
    /\ requests = 0
    /\ failures = 0

\* start of a run of getEnhancedSmartResponseWithSources, no helper called
PipelineInit ==
    /\ prompt \in Prompts
    /\ call = NoCall
    /\ liveUrls = {}
    /\ pc = "getInitialAIResponse"
    /\ summary = ""
    /\ sourcesAnalysis = NoSourcesAnalysis
    /\ idx = 1
    /\ validatedSources = << >>
    /\ cleanedUrl = Null
    /\ retries = 0
    /\ scrapedData = "none"
    /\ analysis = NoAnalysis
    /\ reqLog = << >>
    /\ emitLog = << >>
    /\ stages = << >>
    /\ caught = {}
    /\ outcome = "pending"
    /\ result = NoResult

Init ==
    /\ PipelineInit
    /\ BatchIdle
    /\ ServerIdle

----------------------------------------------------------------------------
(* Program constants *)

\* the 0.5 every missing score resolves to
DefaultScore == 50

\* scrapeWebsite = async (url, retries = 2)
DefaultRetries == 2

\* (source.credibilityScore || 0.5) - 0.3, floored at 0.2
CredibilityPenalty == 30

CredibilityFloor == 20

\* credibilityScore of a source pushed by the catch block of the loop
FailedCredibility == 20

\* credibilityScore and neutralityScore of a predefined source
PredefinedCredibility == 80

PredefinedNeutrality == 70

----------------------------------------------------------------------------
(* getInitialAIResponse *)

GetInitialAIResponse ==
    /\ pc = "getInitialAIResponse"
    /\ UNCHANGED <<call, liveUrls, batchVars, serverVars>>
    /\ \E kind \in {"throws", "notext", "text"} :
         summary' = IF kind = "text" THEN "answer"
                    ELSE "Unable to generate response"
    /\ pc' = "getActualSourcesUsed"
    /\ stages' = Append(stages, "getInitialAIResponse")
    /\ UNCHANGED <<prompt, sourcesAnalysis, idx, validatedSources, cleanedUrl,
                   retries, scrapedData, analysis, reqLog, emitLog, caught,
                   outcome, result>>

----------------------------------------------------------------------------
(* getActualSourcesUsed *)

\* .map(source => ({...source, url: cleanUrl(source.url) || source.url}))
CleanSource(source) ==
    [source EXCEPT !.url = IF cleanUrl(source.url) # Null
                           THEN cleanUrl(source.url) ELSE source.url]

\* .filter(source => source.url)
RECURSIVE FilterByUrl(_)
FilterByUrl(list) ==
    IF list = << >> THEN << >>
    ELSE IF Head(list).url # Null
         THEN <<Head(list)>> \o FilterByUrl(Tail(list))
         ELSE FilterByUrl(Tail(list))

CleanSources(list) == FilterByUrl([i \in 1..Len(list) |-> CleanSource(list[i])])

ExtractFallback ==
    [overallNeutrality |-> Some(DefaultScore),
     overallPersuasion |-> Some(DefaultScore),
     shape |-> "array", sources |-> << >>]

GetActualSourcesUsed ==
    /\ pc = "getActualSourcesUsed"
    /\ UNCHANGED <<call, liveUrls, batchVars, serverVars>>
    /\ \E kind \in ReplyKinds, overall \in OverallValues,
          shape \in SourcesShapes, list \in CandidateLists :
         /\ kind # "json" =>
                /\ overall = CHOOSE o \in OverallValues : TRUE
                /\ shape = "array"
                /\ list = << >>
         /\ shape # "array" => list = << >>
         /\ LET value == [overallNeutrality |-> overall.overallNeutrality,
                          overallPersuasion |-> overall.overallPersuasion,
                          shape |-> shape,
                          sources |-> list]
                reply == callAI(kind, value, ExtractFallback)
            IN  IF reply.shape = "arrayWithNull"
                THEN \* source.url of null throws inside the map
                     /\ pc' = "reliableCatch"
                     /\ UNCHANGED sourcesAnalysis
                ELSE /\ sourcesAnalysis' =
                           [reply EXCEPT
                               !.sources = CleanSources(reply.sources)]
                     /\ pc' = "enrich"
    /\ idx' = 1
    /\ stages' = Append(stages, "getActualSourcesUsed")
    /\ UNCHANGED <<prompt, summary, validatedSources, cleanedUrl, retries,
                   scrapedData, analysis, reqLog, emitLog, caught, outcome,
                   result>>

----------------------------------------------------------------------------
(* validateAndEnrichSourcesWithScraping: the loop over the candidates *)

Sources == sourcesAnalysis.sources

Source == Sources[idx]

\* for (const source of sources) on an object that is not iterable
EnrichNotIterable ==
    /\ pc = "enrich"
    /\ UNCHANGED <<call, liveUrls, batchVars, serverVars>>
    /\ sourcesAnalysis.shape = "object"
    /\ pc' = "reliableCatch"
    /\ stages' = Append(stages, "validateAndEnrichSourcesWithScraping")
    /\ UNCHANGED <<prompt, summary, sourcesAnalysis, idx, validatedSources,
                   cleanedUrl, retries, scrapedData, analysis, reqLog,
                   emitLog, caught, outcome, result>>

\* the candidate is dropped: !cleanedUrl || !isValidUrl(cleanedUrl)
DropsCandidate(url) == url = Null \/ ~isValidUrl(url)

\* start of one iteration, up to the call of scrapeWebsite
EnrichNext ==
    /\ pc = "enrich"
    /\ UNCHANGED <<call, liveUrls, batchVars, serverVars>>
    /\ sourcesAnalysis.shape # "object"
    /\ idx <= Len(Sources)
    /\ LET url == cleanUrl(Source.url)
       IN  IF DropsCandidate(url)
           THEN /\ idx' = idx + 1
                /\ emitLog' = Append(emitLog, "dropped")
                /\ UNCHANGED <<pc, cleanedUrl, retries>>
           ELSE /\ cleanedUrl' = url
                /\ retries' = DefaultRetries
                /\ pc' = "validateUrl"
                /\ UNCHANGED <<idx, emitLog>>
    /\ reqLog' = << >>
    /\ UNCHANGED <<stages, prompt, summary, sourcesAnalysis,
                   validatedSources,
                   scrapedData, analysis, caught, outcome, result>>

----------------------------------------------------------------------------
(* scrapeWebsite and validateUrl *)

\* validateUrl: axios.head resolves for a status below 500 and the URL
\* exists for a status below 400; no response and 5xx are caught
UrlExists(status) == status # 0 /\ status < 500 /\ status < 400

ValidateUrl ==
    /\ pc = "validateUrl"
    /\ UNCHANGED <<call, batchVars, serverVars>>
    /\ \E status \in HeadStatuses :
         /\ reqLog' = Append(reqLog, [method |-> "HEAD", status |-> status,
                                      content |-> "none"])
         /\ liveUrls' = IF UrlExists(status)
                        THEN liveUrls \cup {cleanedUrl} ELSE liveUrls
         /\ IF UrlExists(status)
            THEN pc' = "get" /\ UNCHANGED scrapedData
            ELSE pc' = "analyze" /\ scrapedData' = "null"
    /\ UNCHANGED <<stages, prompt, summary, sourcesAnalysis, idx,
                   validatedSources,
                   cleanedUrl, retries, analysis, emitLog, caught, outcome,
                   result>>

\* the retry test with retries >= 0 in place of retries > 0
ShouldRetryInclusive(status, retriesLeft) == status = 403 /\ retriesLeft >= 0

\* the retry test without the test of the status
ShouldRetryAnyFailure(status, retriesLeft) == retriesLeft > 0

\* catch of scrapeWebsite: error.response?.status === 403 && retries > 0
ShouldRetry(status, retriesLeft) == status = 403 /\ retriesLeft > 0

\* axios.get and the extraction of the body text
GetPage ==
    /\ pc = "get"
    /\ UNCHANGED <<call, liveUrls, batchVars, serverVars>>
    /\ \E status \in GetStatuses, content \in PageContents :
         /\ status # 200 => content = "short"
         /\ reqLog' = Append(reqLog,
                [method |-> "GET", status |-> status,
                 content |-> IF status = 200 THEN content ELSE "none"])
         /\ IF status = 200
            THEN /\ scrapedData' = IF content = "enough" THEN "data" ELSE "null"
                 /\ pc' = "analyze"
            ELSE IF ShouldRetry(status, retries)
            THEN /\ pc' = "retryDelay"
                 /\ UNCHANGED scrapedData
            ELSE /\ scrapedData' = "null"
                 /\ pc' = "analyze"
    /\ UNCHANGED <<stages, prompt, summary, sourcesAnalysis, idx,
                   validatedSources,
                   cleanedUrl, retries, analysis, emitLog, caught, outcome,
                   result>>

\* the one second delay, then return scrapeWebsite(url, retries - 1)
RetryDelay ==
    /\ pc = "retryDelay"
    /\ UNCHANGED <<call, liveUrls, batchVars, serverVars>>
    /\ retries' = retries - 1
    /\ pc' = "validateUrl"
    /\ UNCHANGED <<stages, prompt, summary, sourcesAnalysis, idx,
                   validatedSources,
                   cleanedUrl, scrapedData, analysis, reqLog, emitLog, caught,
                   outcome, result>>

----------------------------------------------------------------------------
(* validateAndEnrichSourcesWithScraping: analysis and the pushed source *)

\* source.contentSnippet || source.title || "No content available" is no
\* string, so text.substring throws in getNeutralityAndSentiment
ContentIsNoString(source) ==
    \/ source.contentSnippet = "number"
    \/ source.contentSnippet = "undefined" /\ source.title = "number"

TypeOrGeneral(sourceType) ==
    IF sourceType = "undefined" THEN "general" ELSE sourceType

\* the source pushed when scrapedData && scrapedData.text
ScrapedSource(source, url, an, tags) ==
    [url |-> url,
     tags |-> tags,
     neutralityScore |-> OrDefault(an.neutralityScore, DefaultScore),
     sentimentScore |-> OrDefault(an.sentimentScore, DefaultScore),
     domain |-> extractDomain(url),
     sourceType |-> TypeOrGeneral(source.sourceType),
     credibilityScore |->
         calculateCredibilityScore(extractDomain(url), source.sourceType),
     verified |-> TRUE,
     contentSource |-> "direct_scraping",
     scrapedSuccessfully |-> TRUE,
     predefined |-> FALSE,
     confidence |-> Undefined]

\* credibilityScore of the source pushed when scraping failed
PenalizedCredibility(source) ==
    Max(CredibilityFloor,
        OrDefault(source.credibilityScore, DefaultScore) - CredibilityPenalty)

\* the source pushed when scraping failed: {...source, url: cleanedUrl, ...}
DescribedSource(source, url, an, tags) ==
    [url |-> url,
     tags |-> tags,
     neutralityScore |-> OrDefault(an.neutralityScore, DefaultScore),
     sentimentScore |-> OrDefault(an.sentimentScore, DefaultScore),
     domain |-> extractDomain(url),
     sourceType |-> TypeOrGeneral(source.sourceType),
     credibilityScore |-> PenalizedCredibility(source),
     verified |-> FALSE,
     contentSource |-> source.contentSource,
     scrapedSuccessfully |-> FALSE,
     predefined |-> source.predefined,
     confidence |-> source.confidence]

\* the source pushed by the catch block of the loop: {...source, ...}
FailedSource(source) ==
    [url |-> source.url,
     tags |-> << >>,
     neutralityScore |-> DefaultScore,
     sentimentScore |-> DefaultScore,
     domain |-> source.domain,
     sourceType |-> source.sourceType,
     credibilityScore |-> FailedCredibility,
     verified |-> FALSE,
     contentSource |-> source.contentSource,
     scrapedSuccessfully |-> FALSE,
     predefined |-> source.predefined,
     confidence |-> source.confidence]

\* await getNeutralityAndSentiment(...) in either branch
GetNeutralityAndSentiment ==
    /\ pc = "analyze"
    /\ UNCHANGED <<call, liveUrls, batchVars, serverVars>>
    /\ IF scrapedData = "null" /\ ContentIsNoString(Source)
       THEN \* the TypeError is caught by the catch block of the loop
            /\ validatedSources' = Append(validatedSources, FailedSource(Source))
            /\ emitLog' = Append(emitLog, "failed")
            /\ idx' = idx + 1
            /\ pc' = "enrich"
            /\ cleanedUrl' = Null
            /\ scrapedData' = "none"
            /\ reqLog' = << >>
            /\ retries' = 0
            /\ UNCHANGED analysis
       ELSE /\ \E kind \in ReplyKinds, value \in AnalysisValues :
                 /\ kind # "json" =>
                        value = CHOOSE v \in AnalysisValues : TRUE
                 /\ analysis' = callAI(kind, value, SentimentFallback)
            /\ pc' = "tags"
            /\ reqLog' = << >>
            /\ retries' = 0
            /\ UNCHANGED <<validatedSources, emitLog, idx, cleanedUrl,
                           scrapedData>>
    /\ UNCHANGED <<stages, prompt, summary, sourcesAnalysis, caught, outcome,
                   result>>

\* await getTagsFromAI(...), then validatedSources.push(...)
GetTagsFromAI ==
    /\ pc = "tags"
    /\ UNCHANGED <<call, liveUrls, batchVars, serverVars>>
    /\ \E kind \in ReplyKinds, value \in TagValues :
         /\ kind # "json" => value = CHOOSE v \in TagValues : TRUE
         /\ LET reply == callAI(kind, value, TagsFallback)
                tags == IF reply.isArray THEN reply.items ELSE << >>
            IN  validatedSources' =
                    Append(validatedSources,
                           IF scrapedData = "data"
                           THEN ScrapedSource(Source, cleanedUrl, analysis, tags)
                           ELSE DescribedSource(Source, cleanedUrl, analysis,
                                                tags))
    /\ emitLog' = Append(emitLog, IF scrapedData = "data" THEN "scraped"
                                   ELSE "described")
    /\ idx' = idx + 1
    /\ pc' = "enrich"
    /\ cleanedUrl' = Null
    /\ scrapedData' = "none"
    /\ analysis' = NoAnalysis
    /\ UNCHANGED <<stages, prompt, summary, sourcesAnalysis, retries, reqLog,
                   caught,
                   outcome, result>>

----------------------------------------------------------------------------
(* generatePredefinedSources *)

PromptIncludes(p, word) == word \in p.words

Category(p) ==
    IF \E w \in {"health", "medical", "disease"} : PromptIncludes(p, w)
    THEN "health"
    ELSE IF \E w \in {"nutrition", "diet", "food"} : PromptIncludes(p, w)
    THEN "nutrition"
    ELSE "general"

reliableDomains ==
    [c \in {"health", "nutrition", "general"} |->
        CASE c = "health" ->
               <<"https://www.cdc.gov/", "https://www.nih.gov/",
                 "https://www.who.int/", "https://www.mayoclinic.org/",
                 "https://www.health.harvard.edu/">>
          [] c = "nutrition" ->
               <<"https://www.nutrition.gov/",
                 "https://www.hsph.harvard.edu/nutritionsource/",
                 "https://www.eatright.org/">>
          [] OTHER ->
               <<"https://www.wikipedia.org/", "https://www.britannica.com/",
                 "https://www.sciencedaily.com/">>]

PredefinedSource(category, head) ==
    [url |-> <<head>>,
     tags |-> <<category, "reliable", "verified">>,
     neutralityScore |-> PredefinedNeutrality,
     sentimentScore |-> DefaultScore,
     domain |-> extractDomain(<<head>>),
     sourceType |-> IF category = "health" THEN "medical" ELSE "general",
     credibilityScore |-> PredefinedCredibility,
     verified |-> TRUE,
     contentSource |-> "undefined",
     scrapedSuccessfully |-> FALSE,
     predefined |-> TRUE,
     confidence |-> Undefined]

\* reliableDomains[category].slice(0, 3).map(...), for a string prompt
generatePredefinedSources(p) ==
    LET category == Category(p)
        domains == SubSeq(reliableDomains[category], 1, 3)
    IN  [i \in 1..Len(domains) |-> PredefinedSource(category, domains[i])]

----------------------------------------------------------------------------
(* getReliableSourcesWithFallback, getFallbackResponse *)

\* prompt.toLowerCase() exists on strings only
HasToLowerCase(p) == p.kind = "string"

\* getGenSummary(text) throws out of its catch block when text has neither
\* substring nor slice
GenSummaryThrows(p) == p.kind = "number"

\* validateAndEnrichSourcesWithScraping has returned
ReliableReturn ==
    /\ pc = "enrich"
    /\ UNCHANGED <<call, liveUrls, batchVars, serverVars>>
    /\ sourcesAnalysis.shape # "object"
    /\ idx > Len(Sources)
    /\ IF Len(validatedSources) > 0
       THEN /\ result' =
                 [summary |-> summary,
                  neutralityScore |->
                      OrDefault(sourcesAnalysis.overallNeutrality, DefaultScore),
                  persuasionScore |->
                      OrDefault(sourcesAnalysis.overallPersuasion, DefaultScore),
                  sources |-> validatedSources,
                  fallback |-> FALSE, usedFallback |-> FALSE,
                  biasAnalysis |-> "", sourceMetrics |-> NoMetrics,
                  researchQuality |-> NoQuality, sourcesValidated |-> FALSE]
            /\ pc' = "getBiasAnalysisInsights"
       ELSE IF HasToLowerCase(prompt)
       THEN /\ result' =
                 [summary |-> summary,
                  neutralityScore |-> DefaultScore,
                  persuasionScore |-> DefaultScore,
                  sources |-> generatePredefinedSources(prompt),
                  fallback |-> FALSE, usedFallback |-> TRUE,
                  biasAnalysis |-> "", sourceMetrics |-> NoMetrics,
                  researchQuality |-> NoQuality, sourcesValidated |-> FALSE]
            /\ pc' = "getBiasAnalysisInsights"
       ELSE \* generatePredefinedSources throws a TypeError
            /\ pc' = "reliableCatch"
            /\ UNCHANGED result
    /\ stages' = stages \o
           (IF Len(validatedSources) > 0
            THEN <<"validateAndEnrichSourcesWithScraping">>
            ELSE <<"validateAndEnrichSourcesWithScraping",
                   "generatePredefinedSources">>)
    /\ UNCHANGED <<prompt, summary, sourcesAnalysis, idx, validatedSources,
                   cleanedUrl, retries, scrapedData, analysis, reqLog,
                   emitLog, caught, outcome>>

\* getFallbackResponse marking the result the way the predefined sources do
FallbackResponseUsedFallback(text) ==
    [summary |-> text,
     neutralityScore |-> DefaultScore,
     persuasionScore |-> DefaultScore,
     sources |-> << >>,
     fallback |-> FALSE, usedFallback |-> TRUE,
     biasAnalysis |-> "", sourceMetrics |-> NoMetrics,
     researchQuality |-> NoQuality, sourcesValidated |-> FALSE]

\* getFallbackResponse for a prompt getGenSummary returns for
FallbackResponse(text) ==
    [summary |-> text,
     neutralityScore |-> DefaultScore,
     persuasionScore |-> DefaultScore,
     sources |-> << >>,
     fallback |-> TRUE, usedFallback |-> FALSE,
     biasAnalysis |-> "", sourceMetrics |-> NoMetrics,
     researchQuality |-> NoQuality, sourcesValidated |-> FALSE]

\* the summaries getGenSummary can return for the prompt
GenSummaries(p) ==
    IF p.kind = "string" THEN {"summary", "prompt.slice(0, 200)..."}
    ELSE {"prompt.slice(0, 200)..."}

\* catch of getReliableSourcesWithFallback: return getFallbackResponse(prompt)
ReliableCatch ==
    /\ pc = "reliableCatch"
    /\ UNCHANGED <<call, liveUrls, batchVars, serverVars>>
    /\ caught' = caught \cup {"getReliableSourcesWithFallback"}
    /\ IF GenSummaryThrows(prompt)
       THEN /\ pc' = "enhancedCatch"
            /\ UNCHANGED result
       ELSE /\ \E text \in GenSummaries(prompt) :
                 result' = FallbackResponse(text)
            /\ pc' = "getBiasAnalysisInsights"
    /\ stages' = Append(stages, "getFallbackResponse")
    /\ UNCHANGED <<prompt, summary, sourcesAnalysis, idx, validatedSources,
                   cleanedUrl, retries, scrapedData, analysis, reqLog,
                   emitLog, outcome>>

----------------------------------------------------------------------------
(* getEnhancedSmartResponseWithSources: the sources of the response *)

\* x || 0.5 on a number
NumberOrDefault(x) == IF x = 0 THEN DefaultScore ELSE x

\* sources.map(source => ({...source, tags, neutralityScore: ... || 0.5, ...}))
Normalized(source) ==
    [source EXCEPT !.neutralityScore = NumberOrDefault(source.neutralityScore),
                   !.sentimentScore = NumberOrDefault(source.sentimentScore),
                   !.credibilityScore = NumberOrDefault(source.credibilityScore)]

----------------------------------------------------------------------------
(* Direct calls of the helper functions: one call in a behaviour, on inputs  *)
(* from a bounded set                                                      *)

\* most query parameters of a URL handed to cleanUrl
MaxParams == 3

\* a parameter cleanUrl has no pattern for
PlainTokens == {"id=1"}

ParamTokens == FbclidTokens \cup UtmTokens \cup PlainTokens

\* p1&p2&...&pn
RECURSIVE JoinParams(_)
JoinParams(ps) ==
    IF Len(ps) <= 1 THEN ps
    ELSE <<Head(ps), "&">> \o JoinParams(Tail(ps))

\* head, head?, head?p1&...&pn and head?p1&...&pn& for every choice and
\* order of at most MaxParams parameters, and the two values that are no
\* non-empty string
UrlInputs ==
    {Null, NonStringUrl, <<"https://x.com/a">>, <<"https://x.com/a", "?">>}
    \cup {<<"https://x.com/a", "?">> \o JoinParams(ps) \o tail :
            ps \in UNION {[1..n -> ParamTokens] : n \in 1..MaxParams},
            tail \in {<< >>, <<"&">>}}

CallCleanUrl ==
    /\ call.fn = "none"
    /\ \E url \in UrlInputs :
         call' = [fn |-> "cleanUrl", args |-> <<url>>,
                  result |-> cleanUrl(url)]
    /\ UNCHANGED <<pipelineVars, batchVars, serverVars>>

\* domains, as label sequences, and the empty domain
DomainInputs ==
    {Null, <<"mit", "edu">>, <<"nasa", "gov">>, <<"who", "org">>,
     <<"randomblog", "com">>, <<"bbc", "com">>, <<"x", "io">>,
     <<"mit", "edu", "evil", "com">>, <<"x", "government", "com">>,
     <<"gov", "organic", "io">>}

\* declared types: the keys of typeScores, a string that is no key, and
\* no type at all
TypeInputs == DOMAIN typeScores \cup {"blog", "undefined"}

CallCalculateCredibilityScore ==
    /\ call.fn = "none"
    /\ \E domain \in DomainInputs, sourceType \in TypeInputs :
         call' = [fn |-> "calculateCredibilityScore",
                  args |-> <<domain, sourceType>>,
                  result |-> calculateCredibilityScore(domain, sourceType)]
    /\ UNCHANGED <<pipelineVars, batchVars, serverVars>>

\* most scores in a list handed to the metric functions
MaxScores == 3

\* most <p> elements of a fetched page
MaxFragments == 3

\* longest list of URLs handed to validateMultipleUrls
MaxUrls == 4

\* largest concurrency handed to validateMultipleUrls
MaxConcurrency == 3

\* most HTTP requests the server handles at one time
MaxSlots == 2

\* most HTTP requests the server receives in a behaviour
MaxRequests == 3

\* neutrality scores as calculateSourceMetrics receives them: truthy numbers
\* (the sources were normalised with || 0.5), not confined to [0, 1]
ScoreValues == {10, 40, 50, 70, 90, 150}

ScoreLists == UNION {[1..n -> ScoreValues] : n \in 0..MaxScores}

SourcesOf(scores) ==
    [i \in 1..Len(scores) |-> [neutralityScore |-> scores[i]]]

\* a variant of checkPerspectiveBalance without the test of the length
checkPerspectiveBalanceAnyLength(neutralityScores) ==
    LET n == Len(neutralityScores)
        highNeutral ==
            Cardinality({i \in 1..n : neutralityScores[i] > 70})
        lowNeutral ==
            Cardinality({i \in 1..n : neutralityScores[i] < 40})
        moderateNeutral ==
            Cardinality({i \in 1..n : /\ neutralityScores[i] >= 40
                                      /\ neutralityScores[i] <= 70})
    IN  \/ highNeutral > 0 /\ lowNeutral > 0
        \/ 2 * moderateNeutral >= n

checkPerspectiveBalance(neutralityScores) ==
    LET n == Len(neutralityScores)
        highNeutral ==
            Cardinality({i \in 1..n : neutralityScores[i] > 70})
        lowNeutral ==
            Cardinality({i \in 1..n : neutralityScores[i] < 40})
        moderateNeutral ==
            Cardinality({i \in 1..n : /\ neutralityScores[i] >= 40
                                      /\ neutralityScores[i] <= 70})
    IN  IF n < 3 THEN FALSE
        ELSE \/ highNeutral > 0 /\ lowNeutral > 0
             \/ 2 * moderateNeutral >= n  \* moderateNeutral >= length / 2

CallCheckPerspectiveBalance ==
    /\ call.fn = "none"
    /\ \E scores \in ScoreLists :
         call' = [fn |-> "checkPerspectiveBalance", args |-> <<scores>>,
                  result |-> checkPerspectiveBalance(scores)]
    /\ UNCHANGED <<pipelineVars, batchVars, serverVars>>

\* scores.reduce((a, b) => a + b, 0)
RECURSIVE Sum(_)
Sum(scores) ==
    IF scores = << >> THEN 0 ELSE Head(scores) + Sum(Tail(scores))

\* A variance or a diversity is the exact fraction num / den of 0.0001 (the
\* square of a hundredth), den > 0; the code computes it in doubles.
Zero == [num |-> 0, den |-> 1]

One == [num |-> 10000, den |-> 1]

\* a variant of calculateScoreVariance that divides by length - 1
calculateSampleVariance(scores) ==
    IF Len(scores) < 2 THEN Zero
    ELSE LET n == Len(scores)
             total == Sum(scores)
             squares == [i \in 1..n |->
                            (n * scores[i] - total) * (n * scores[i] - total)]
         IN  [num |-> Sum(squares), den |-> n * n * (n - 1)]

\* mean = total / n, so (score - mean)^2 = (n * score - total)^2 / n^2 and
\* the sum of the squares divided by n has the denominator n^3
calculateScoreVariance(scores) ==
    IF Len(scores) < 2 THEN Zero
    ELSE LET n == Len(scores)
             total == Sum(scores)
             squares == [i \in 1..n |->
                            (n * scores[i] - total) * (n * scores[i] - total)]
         IN  [num |-> Sum(squares), den |-> n * n * n]

\* Math.min(variance * 5, 1)
calculateDiversityScore(sources) ==
    IF sources = << >> THEN Zero
    ELSE LET neutralityScores ==
                 [i \in 1..Len(sources) |->
                     NumberOrDefault(sources[i].neutralityScore)]
             variance == calculateScoreVariance(neutralityScores)
         IN  IF 5 * variance.num >= One.num * variance.den THEN One
             ELSE [num |-> 5 * variance.num, den |-> variance.den]

CallCalculateDiversityScore ==
    /\ call.fn = "none"
    /\ \E scores \in ScoreLists :
         call' = [fn |-> "calculateDiversityScore",
                  args |-> <<SourcesOf(scores)>>,
                  result |-> calculateDiversityScore(SourcesOf(scores))]
    /\ UNCHANGED <<pipelineVars, batchVars, serverVars>>

\* a fraction is above the bound given in hundredths (units of 0.0001)
DiversityAbove(diversityScore, bound) ==
    diversityScore.num > 100 * bound * diversityScore.den

\* an average of hundredths, sum / count, is above the bound in hundredths
AverageAbove(average, bound) == average.num > bound * average.den

\* the contributions of assessResearchQuality, each [weight, factor], the
\* weight in hundredths and the factor "" when nothing is added
NeutralityFactor(neutralityScore) ==
    IF neutralityScore > 70
    THEN [weight |-> 20, factor |-> "High overall neutrality"]
    ELSE IF neutralityScore > 50
    THEN [weight |-> 10, factor |-> "Moderate overall neutrality"]
    ELSE [weight |-> 0, factor |-> ""]

\* a variant of DiversityFactor with the bounds of NeutralityFactor
DiversityFactorLikeNeutrality(diversityScore) ==
    IF DiversityAbove(diversityScore, 70)
    THEN [weight |-> 20, factor |-> "Good source diversity"]
    ELSE IF DiversityAbove(diversityScore, 50)
    THEN [weight |-> 10, factor |-> "Moderate source diversity"]
    ELSE [weight |-> 0, factor |-> ""]

DiversityFactor(diversityScore) ==
    IF DiversityAbove(diversityScore, 70)
    THEN [weight |-> 20, factor |-> "Good source diversity"]
    ELSE IF DiversityAbove(diversityScore, 40)
    THEN [weight |-> 10, factor |-> "Moderate source diversity"]
    ELSE [weight |-> 0, factor |-> ""]

RangeFactor(neutralityRange) ==
    IF neutralityRange.max - neutralityRange.min > 30
    THEN [weight |-> 15, factor |-> "Wide perspective range"]
    ELSE [weight |-> 0, factor |-> ""]

CredibilityFactor(average) ==
    IF AverageAbove(average, 70)
    THEN [weight |-> 25, factor |-> "High source credibility"]
    ELSE IF AverageAbove(average, 50)
    THEN [weight |-> 15, factor |-> "Moderate source credibility"]
    ELSE [weight |-> 0, factor |-> ""]

TypesFactor(sourceTypes) ==
    IF Cardinality(sourceTypes) >= 3
    THEN [weight |-> 10, factor |-> "Good source type variety"]
    ELSE [weight |-> 0, factor |-> ""]

QuantityFactor(sources) ==
    IF Len(sources) >= 3
    THEN [weight |-> 10, factor |-> "Adequate source quantity"]
    ELSE [weight |-> 0, factor |-> ""]

\* a variant of QualityRating with >= in place of >
QualityRatingInclusive(qualityScore) ==
    IF qualityScore >= 70 THEN "high"
    ELSE IF qualityScore >= 40 THEN "medium" ELSE "low"

\* qualityScore > 0.7 ? "high" : qualityScore > 0.4 ? "medium" : "low"
QualityRating(qualityScore) ==
    IF qualityScore > 70 THEN "high"
    ELSE IF qualityScore > 40 THEN "medium" ELSE "low"

\* aiResponse.neutralityScore is <<v>> or absent (then 0.5); sourceMetrics
\* holds neutralityRange, diversityScore, the average of credibilityRange
\* and the keys of sourceTypes
assessResearchQuality(aiResponse, sourceMetrics) ==
    LET neutralityScore ==
            IF aiResponse.neutralityScore = Undefined THEN DefaultScore
            ELSE aiResponse.neutralityScore[1]
        added == <<NeutralityFactor(neutralityScore),
                   DiversityFactor(sourceMetrics.diversityScore),
                   RangeFactor(sourceMetrics.neutralityRange),
                   CredibilityFactor(sourceMetrics.credibilityAverage),
                   TypesFactor(sourceMetrics.sourceTypes),
                   QuantityFactor(aiResponse.sources)>>
        qualityScore == Sum([i \in 1..6 |-> added[i].weight])
        pushed == SelectSeq(added, LAMBDA f : f.factor # "")
    IN  [qualityScore |-> Min(qualityScore, 100),
         factors |-> [i \in 1..Len(pushed) |-> pushed[i].factor],
         rating |-> QualityRating(qualityScore)]

\* Math.min(...scores) and Math.max(...scores) on a list that is not empty
MinOf(scores) ==
    CHOOSE x \in {scores[i] : i \in 1..Len(scores)} :
        \A i \in 1..Len(scores) : x <= scores[i]

MaxOf(scores) ==
    CHOOSE x \in {scores[i] : i \in 1..Len(scores)} :
        \A i \in 1..Len(scores) : x >= scores[i]

\* a count that takes every source for a type of its own
countSourceTypesPerSource(sources) ==
    {<<i, sources[i].sourceType>> : i \in 1..Len(sources)}

\* the keys of countSourceTypes(sources): source.sourceType || "unknown"
countSourceTypes(sources) ==
    {IF sources[i].sourceType = "" THEN "unknown" ELSE sources[i].sourceType :
        i \in 1..Len(sources)}

\* The object for no sources has neither credibilityRange nor sourceTypes
\* nor balancedPerspectives: the fields hold what the destructuring of the
\* readers puts in their place ({ average: 0.5 }, {}, false).
calculateSourceMetrics(sources) ==
    IF sources = << >>
    THEN [neutralityRange |-> [min |-> 0, max |-> 0],
          diversityScore |-> Zero,
          scoreVariance |-> Zero,
          credibilityAverage |-> [num |-> DefaultScore, den |-> 1],
          balancedPerspectives |-> FALSE,
          sourceTypes |-> {}]
    ELSE LET n == Len(sources)
             neutralityScores ==
                 [i \in 1..n |-> NumberOrDefault(sources[i].neutralityScore)]
             credibilityScores ==
                 [i \in 1..n |-> NumberOrDefault(sources[i].credibilityScore)]
         IN  [neutralityRange |-> [min |-> MinOf(neutralityScores),
                                   max |-> MaxOf(neutralityScores)],
              diversityScore |-> calculateDiversityScore(sources),
              scoreVariance |-> calculateScoreVariance(neutralityScores),
              credibilityAverage |->
                  [num |-> Sum(credibilityScores), den |-> n],
              balancedPerspectives |->
                  checkPerspectiveBalance(neutralityScores),
              sourceTypes |-> countSourceTypes(sources)]

\* responses and metrics on, below and above every bound the function tests
ResponseInputs ==
    [neutralityScore : {Undefined, Some(50), Some(60), Some(70), Some(80)},
     sources : {SourcesOf(<<50, 50>>), SourcesOf(<<50, 50, 50>>)}]

MetricsInputs ==
    [neutralityRange : {[min |-> 40, max |-> 70], [min |-> 40, max |-> 71]},
     diversityScore : {[num |-> n, den |-> 1] :
                          n \in {0, 4000, 4500, 5000, 6000, 7000, 8000}},
     credibilityAverage : {[num |-> n, den |-> 2] : n \in {100, 120, 140, 160}},
     sourceTypes : {{"news", "general"}, {"news", "general", "academic"}}]

CallAssessResearchQuality ==
    /\ call.fn = "none"
    /\ \E aiResponse \in ResponseInputs, sourceMetrics \in MetricsInputs :
         call' = [fn |-> "assessResearchQuality",
                  args |-> <<aiResponse, sourceMetrics>>,
                  result |-> assessResearchQuality(aiResponse, sourceMetrics)]
    /\ UNCHANGED <<pipelineVars, batchVars, serverVars>>

\* the callers of callAI whose fallback value is a constant
CallAICallers ==
    {"getNeutralityAndSentiment", "getTagsFromAI", "getBiasAnalysisInsights"}

CallAIValues(caller) ==
    CASE caller = "getNeutralityAndSentiment" -> AnalysisValues
      [] caller = "getTagsFromAI" -> TagValues
      [] OTHER -> InsightValues

CallAIFallback(caller) ==
    CASE caller = "getNeutralityAndSentiment" -> SentimentFallback
      [] caller = "getTagsFromAI" -> TagsFallback
      [] OTHER -> InsightFallback

CallCallAI ==
    /\ call.fn = "none"
    /\ \E caller \in CallAICallers, kind \in ReplyKinds :
         \E value \in CallAIValues(caller) :
            call' = [fn |-> "callAI", by |-> caller,
                     args |-> <<kind, value, CallAIFallback(caller)>>,
                     result |->
                        [returned |->
                            callAI(kind, value, CallAIFallback(caller)),
                         parsed |-> ParseAttempted(kind)]]
    /\ UNCHANGED <<pipelineVars, batchVars, serverVars>>

\* .filter((text) => text.length > 50)
MinParagraphLength == 50

\* bodyText.length < 100
MinBodyLength == 100

\* bodyText.substring(0, 8000)
MaxBodyLength == 8000

\* length of "\n\n", the separator of .join
SeparatorLength == 2

\* the paragraphs that the filter keeps, each given by the length of its
\* trimmed text
KeptParagraphs(paragraphs) ==
    SelectSeq(paragraphs, LAMBDA n : n > MinParagraphLength)

\* length of kept.join("\n\n")
JoinedLength(kept) ==
    IF kept = << >> THEN 0
    ELSE Sum(kept) + SeparatorLength * (Len(kept) - 1)

\* the extraction of scrapeWebsite from the paragraphs of a fetched page:
\* null on insufficient text, else the lengths of text and rawContent. The
\* joined paragraphs are trimmed already, so bodyText has their length.
ExtractBodyText(paragraphs) ==
    LET kept == KeptParagraphs(paragraphs)
        bodyLength == JoinedLength(kept)
    IN  IF bodyLength = 0 \/ bodyLength < MinBodyLength
        THEN [isNull |-> TRUE, kept |-> kept, text |-> 0,
              contentLength |-> bodyLength]
        ELSE [isNull |-> FALSE, kept |-> kept,
              text |-> IF bodyLength < MaxBodyLength THEN bodyLength
                       ELSE MaxBodyLength,
              contentLength |-> bodyLength]

\* lengths of the trimmed text of a page's <p> elements
ParagraphLengths == {0, 49, 50, 51, 98, 4000, 8100}

ParagraphLists ==
    UNION {[1..n -> ParagraphLengths] : n \in 0..MaxFragments}

CallExtractBodyText ==
    /\ call.fn = "none"
    /\ \E paragraphs \in ParagraphLists :
         call' = [fn |-> "scrapeWebsite", args |-> paragraphs,
                  result |-> ExtractBodyText(paragraphs)]
    /\ UNCHANGED <<pipelineVars, batchVars, serverVars>>

----------------------------------------------------------------------------
(* getEnhancedSmartResponseWithSources: the returned object *)

\* await getBiasAnalysisInsights(...), then the returned object is built
GetBiasAnalysisInsights ==
    /\ pc = "getBiasAnalysisInsights"
    /\ UNCHANGED <<call, liveUrls, batchVars, serverVars>>
    /\ \E kind \in ReplyKinds,
          sources \in {[i \in 1..Len(result.sources) |->
                          Normalized(result.sources[i])]} :
         \E sourceMetrics \in {calculateSourceMetrics(sources)} :
            \E researchQuality \in
                  {assessResearchQuality(
                       [neutralityScore |-> Some(result.neutralityScore),
                        sources |-> sources],
                       sourceMetrics)} :
               result' =
                   [result EXCEPT
                       !.sources = sources,
                       !.biasAnalysis =
                           callAI(kind, "insights", InsightFallback),
                       !.sourceMetrics = sourceMetrics,
                       !.researchQuality = researchQuality,
                       !.sourcesValidated = TRUE]
    /\ outcome' = "resolved"
    /\ pc' = "done"
    /\ stages' = stages \o <<"getBiasAnalysisInsights",
                            "calculateSourceMetrics", "assessResearchQuality">>
    /\ UNCHANGED <<prompt, summary, sourcesAnalysis, idx, validatedSources,
                   cleanedUrl, retries, scrapedData, analysis, reqLog,
                   emitLog, caught>>

\* catch of getEnhancedSmartResponseWithSources
EnhancedCatch ==
    /\ pc = "enhancedCatch"
    /\ UNCHANGED <<call, liveUrls, batchVars, serverVars>>
    /\ caught' = caught \cup {"getEnhancedSmartResponseWithSources"}
    /\ IF GenSummaryThrows(prompt)
       THEN /\ outcome' = "rejected"
            /\ UNCHANGED result
       ELSE /\ \E text \in GenSummaries(prompt) :
                 result' = FallbackResponse(text)
            /\ outcome' = "resolved"
    /\ pc' = "done"
    /\ stages' = Append(stages, "getFallbackResponse")
    /\ UNCHANGED <<prompt, summary, sourcesAnalysis, idx, validatedSources,
                   cleanedUrl, retries, scrapedData, analysis, reqLog,
                   emitLog>>

----------------------------------------------------------------------------
(* Specification *)

Next ==
    \/ GetInitialAIResponse
    \/ GetActualSourcesUsed
    \/ EnrichNotIterable
    \/ EnrichNext
    \/ ValidateUrl
    \/ GetPage
    \/ RetryDelay
    \/ GetNeutralityAndSentiment
    \/ GetTagsFromAI
    \/ ReliableReturn
    \/ ReliableCatch
    \/ GetBiasAnalysisInsights
    \/ EnhancedCatch

Spec == Init /\ [][Next]_vars

----------------------------------------------------------------------------
(* Specification of the direct calls *)

FunctionInit ==
    /\ Init
    /\ prompt = [kind |-> "string", words |-> {}]

FunctionNext ==
    \/ CallCleanUrl
    \/ CallCalculateCredibilityScore
    \/ CallCheckPerspectiveBalance
    \/ CallCalculateDiversityScore
    \/ CallAssessResearchQuality
    \/ CallCallAI
    \/ CallExtractBodyText

FunctionSpec == FunctionInit /\ [][FunctionNext]_vars

----------------------------------------------------------------------------
(* validateMultipleUrls: batches of quickScrapeForValidation requests.     *)
(* The catch block of the function runs on no list of URLs: nothing in the *)
(* try block throws, quickScrapeForValidation catches what its request and *)
(* its parsing throw.                                                       *)

\* the URLs of the inputs
UrlNames == {"u1", "u2", "u3"}

UrlLists == UNION {[1..n -> UrlNames] : n \in 0..MaxUrls}

\* concurrency is a count of requests, 1 or more
Concurrencies == 1..MaxConcurrency

\* a slice that takes one URL more than concurrency
BatchPositionsOneMore(i, c, n) == {k \in 1..n : k > i /\ k <= i + c + 1}

\* urls.slice(i, i + concurrency), as positions of urls (from 1)
BatchPositions(i, c, n) == {k \in 1..n : k > i /\ k <= i + c}

\* what quickScrapeForValidation resolves to: answered when the GET was
\* answered and the page was loaded, else the catch block's object
quickScrapeForValidation(url, answered) ==
    [url |-> url, exists |-> answered]

\* the array Promise.all resolves to: the values in the order of the batch
PromiseAll(settled, first) ==
    [j \in 1..Cardinality(settled) |->
        (CHOOSE r \in settled : r.pos = first + j).value]

BatchInit ==
    /\ PipelineInit
    /\ prompt = [kind |-> "string", words |-> {}]
    /\ ServerIdle
    /\ urls \in UrlLists
    /\ concurrency \in Concurrencies
    /\ offset = 0
    /\ pending = {}
    /\ batchResults = {}
    /\ results = << >>
    /\ bpc = "loop"

\* i < urls.length: the batch is sliced and its requests are sent
StartBatch ==
    /\ bpc = "loop"
    /\ offset < Len(urls)
    /\ pending' = BatchPositions(offset, concurrency, Len(urls))
    /\ batchResults' = {}
    /\ bpc' = "promiseAll"
    /\ UNCHANGED <<urls, concurrency, offset, results>>
    /\ UNCHANGED <<pipelineVars, call, serverVars>>

\* one request of the batch is answered, fails or times out (5 seconds)
RequestSettles ==
    /\ bpc = "promiseAll"
    /\ \E k \in pending, answered \in BOOLEAN :
         /\ pending' = pending \ {k}
         /\ batchResults' = batchResults \cup
                {[pos |-> k,
                  value |-> quickScrapeForValidation(urls[k], answered)]}
    /\ UNCHANGED <<urls, concurrency, offset, results, bpc>>
    /\ UNCHANGED <<pipelineVars, call, serverVars>>

\* await Promise.all(batchPromises) returns; results.push(...batchResults)
PromiseAllResolves ==
    /\ bpc = "promiseAll"
    /\ pending = {}
    /\ results' = results \o PromiseAll(batchResults, offset)
    /\ batchResults' = {}
    /\ IF offset + concurrency < Len(urls)
       THEN /\ bpc' = "delay"
            /\ UNCHANGED offset
       ELSE /\ bpc' = "loop"
            /\ offset' = offset + concurrency
    /\ UNCHANGED <<urls, concurrency, pending>>
    /\ UNCHANGED <<pipelineVars, call, serverVars>>

\* the 100 ms between two batches, then i += concurrency
BatchDelay ==
    /\ bpc = "delay"
    /\ offset' = offset + concurrency
    /\ bpc' = "loop"
    /\ UNCHANGED <<urls, concurrency, pending, batchResults, results>>
    /\ UNCHANGED <<pipelineVars, call, serverVars>>

\* the loop ends: return results
BatchReturn ==
    /\ bpc = "loop"
    /\ offset >= Len(urls)
    /\ bpc' = "done"
    /\ UNCHANGED <<urls, concurrency, offset, pending, batchResults, results>>
    /\ UNCHANGED <<pipelineVars, call, serverVars>>

BatchNext ==
    \/ StartBatch
    \/ RequestSettles
    \/ PromiseAllResolves
    \/ BatchDelay
    \/ BatchReturn

BatchSpec == BatchInit /\ [][BatchNext]_vars

\* Every request settles (axios times out after 5 seconds) and the timer of
\* the delay fires: a step that can be taken is taken.
FairBatchSpec == BatchSpec /\ WF_vars(BatchNext)

----------------------------------------------------------------------------
(* The server: processUserPrompt, the four handlers of /api/history and    *)
(* the functions of services/userHistory they call.  A request occupies a  *)
(* slot from its arrival on; every await of a database operation is a step *)
(* of its own, and the operation may throw.                                 *)

Slots == 1..MaxSlots

\* req.user?.uid: absent, or the uid of a verified token
Users == {Undefined, Some("A"), Some("B")}

\* req.user?.uid || "testUser123"
UserIdOf(user) == IF user = Undefined THEN "testUser123" ELSE user[1]

HistoryRoutes ==
    {"getUserHistory", "getFullSearchResult", "deleteHistoryEntry",
     "clearAllHistory"}

Routes == HistoryRoutes \cup {"processUserPrompt"}

\* the routes with the parameter :historyId
HasHistoryId(route) == route \in {"getFullSearchResult", "deleteHistoryEntry"}

\* the first await of each handler
FirstStep(route) ==
    CASE route = "processUserPrompt" -> "checkPrompt"
      [] route = "getUserHistory" -> "find"
      [] route = "getFullSearchResult" -> "findOnePopulate"
      [] route = "deleteHistoryEntry" -> "findOne"
      [] OTHER -> "findAll"

\* the positions at which a database operation is awaited
DbSteps ==
    {"saveFullContent", "saveHistory", "find", "findOnePopulate", "populate",
     "findOne", "deleteCached", "findOneAndDelete", "findAll",
     "deleteManyCached", "deleteManyHistory"}

\* a slot without a request; found holds the entries a query returned,
\* touched the _id of every document the request read or changed, returned
\* the _id of every document whose data the response carries
IdleCall ==
    [route |-> "none", user |-> Undefined, userId |-> "", historyId |-> 0,
     hasPrompt |-> FALSE, pc |-> "idle", pipeline |-> "none", found |-> {},
     fullResultId |-> 0, saved |-> FALSE, threw |-> FALSE,
     touched |-> {}, returned |-> {}, responses |-> << >>]

\* res.status(status).json(...) with the kind of body sent
Response(status, body) == [status |-> status, body |-> body]

\* a catch block that sends nothing
NoCatchResponse == IdleCall.responses

\* the catch block of every handler: res.status(500).json({ error: ... })
CatchResponse == <<Response(500, "error")>>

\* SearchHistory.findOne({ _id: historyId }) without the userId
MatchingEntriesAnyUser(historyId, userId) ==
    {e \in history : e.id = historyId}

\* SearchHistory.findOne({ _id: historyId, userId: userId })
MatchingEntries(historyId, userId) ==
    {e \in history : e.id = historyId /\ e.userId = userId}

\* SearchHistory.find({ userId })
EntriesOf(userId) == {e \in history : e.userId = userId}

\* the _id a request can name: that of an entry, or one of no entry
HistoryIds == {e.id : e \in history} \cup {0}

ServerInit ==
    /\ PipelineInit
    /\ prompt = [kind |-> "string", words |-> {}]
    /\ BatchIdle
    /\ history = {}
    /\ cached = {}
    /\ owner = << >>
    /\ nextId = 1
    /\ calls = [s \in Slots |-> IdleCall]
    /\ requests = 0
    /\ failures = 0

\* a request arrives and its handler starts
Receive(s) ==
    /\ calls[s].pc \in {"idle", "done"}
    /\ requests < MaxRequests
    /\ \E route \in Routes, user \in Users :
         \E historyId \in (IF HasHistoryId(route) THEN HistoryIds ELSE {0}),
            hasPrompt \in (IF route = "processUserPrompt" THEN BOOLEAN
                           ELSE {FALSE}) :
            calls' = [calls EXCEPT ![s] =
                         [IdleCall EXCEPT !.route = route,
                                          !.user = user,
                                          !.userId = UserIdOf(user),
                                          !.historyId = historyId,
                                          !.hasPrompt = hasPrompt,
                                          !.pc = FirstStep(route)]]
    /\ requests' = requests + 1
    /\ UNCHANGED <<history, cached, owner, nextId, failures>>
    /\ UNCHANGED <<pipelineVars, call, batchVars>>

\* the handler sends a response and ends
Respond(s, status, body) ==
    [calls EXCEPT ![s].pc = "done",
                  ![s].responses = Append(@, Response(status, body))]

\* an awaited database operation throws: the service logs and rethrows, the
\* catch block of the handler answers
DbThrows(s) ==
    /\ calls[s].pc \in DbSteps
    /\ calls' = [calls EXCEPT ![s].pc = "done",
                              ![s].threw = TRUE,
                              ![s].responses = @ \o CatchResponse]
    /\ failures' = failures + 1
    /\ UNCHANGED <<history, cached, owner, nextId, requests>>
    /\ UNCHANGED <<pipelineVars, call, batchVars>>

(* processUserPrompt and saveSearchHistory *)

\* if (!prompt) return res.status(400)...
CheckPrompt(s) ==
    /\ calls[s].pc = "checkPrompt"
    /\ calls' = IF calls[s].hasPrompt
                THEN [calls EXCEPT ![s].pc = "pipeline"]
                ELSE Respond(s, 400, "error")
    /\ UNCHANGED <<history, cached, owner, nextId, requests, failures>>
    /\ UNCHANGED <<pipelineVars, call, batchVars>>

\* await getEnhancedSmartResponseWithSources(prompt) returns a response or
\* nothing, or rejects
PipelineReturns(s) ==
    /\ calls[s].pc = "pipeline"
    /\ \E returned \in {"result", "null", "rejected"} :
         calls' =
            CASE returned = "result" ->
                   [calls EXCEPT ![s].pipeline = returned,
                                 ![s].pc = "saveFullContent"]
              [] returned = "null" ->
                   [Respond(s, 500, "error") EXCEPT ![s].pipeline = returned]
              [] OTHER ->
                   [calls EXCEPT ![s].pipeline = returned,
                                 ![s].pc = "done",
                                 ![s].responses = @ \o CatchResponse]
    /\ UNCHANGED <<history, cached, owner, nextId, requests, failures>>
    /\ UNCHANGED <<pipelineVars, call, batchVars>>

\* await fullContent.save(); fullResultId = fullContent._id
SaveFullContent(s) ==
    /\ calls[s].pc = "saveFullContent"
    /\ cached' = cached \cup {nextId}
    /\ owner' = Append(owner, calls[s].userId)
    /\ nextId' = nextId + 1
    /\ calls' = [calls EXCEPT ![s].fullResultId = nextId,
                              ![s].touched = @ \cup {nextId},
                              ![s].pc = "saveHistory"]
    /\ UNCHANGED <<history, requests, failures>>
    /\ UNCHANGED <<pipelineVars, call, batchVars>>

\* await searchHistory.save(); return searchHistory
SaveHistory(s) ==
    /\ calls[s].pc = "saveHistory"
    /\ history' = history \cup
           {[id |-> nextId, userId |-> calls[s].userId,
             fullResultId |-> calls[s].fullResultId]}
    /\ owner' = Append(owner, calls[s].userId)
    /\ nextId' = nextId + 1
    /\ calls' = [calls EXCEPT ![s].saved = TRUE,
                              ![s].touched = @ \cup {nextId},
                              ![s].pc = "sendResult"]
    /\ UNCHANGED <<cached, requests, failures>>
    /\ UNCHANGED <<pipelineVars, call, batchVars>>

\* res.json(responseData)
SendResult(s) ==
    /\ calls[s].pc = "sendResult"
    /\ calls' = Respond(s, 200, "result")
    /\ UNCHANGED <<history, cached, owner, nextId, requests, failures>>
    /\ UNCHANGED <<pipelineVars, call, batchVars>>

(* getUserHistory and getUserSearchHistory *)

\* await SearchHistory.find({ userId }).sort(...).limit(limit); res.json
FindHistory(s) ==
    /\ calls[s].pc = "find"
    /\ LET entries == EntriesOf(calls[s].userId)
           ids == {e.id : e \in entries}
       IN  calls' = [Respond(s, 200, "history") EXCEPT
                        ![s].found = entries,
                        ![s].touched = @ \cup ids,
                        ![s].returned = ids]
    /\ UNCHANGED <<history, cached, owner, nextId, requests, failures>>
    /\ UNCHANGED <<pipelineVars, call, batchVars>>

(* getFullSearchResult, handler and service *)

\* SearchHistory.findOne({ _id, userId }): the query of the entry
FindOnePopulate(s) ==
    /\ calls[s].pc = "findOnePopulate"
    /\ LET entries == MatchingEntries(calls[s].historyId, calls[s].userId)
       IN  calls' =
              IF entries = {}
              THEN Respond(s, 404, "error")
              ELSE [calls EXCEPT ![s].found = entries,
                                 ![s].touched =
                                     @ \cup {e.id : e \in entries},
                                 ![s].pc = "populate"]
    /\ UNCHANGED <<history, cached, owner, nextId, requests, failures>>
    /\ UNCHANGED <<pipelineVars, call, batchVars>>

\* .populate("fullResultId"): the query of the cached document; a document
\* that is gone leaves fullResultId null
Populate(s) ==
    /\ calls[s].pc = "populate"
    /\ LET ids == {e.fullResultId : e \in calls[s].found} \cap cached
       IN  calls' =
              IF ids = {}
              THEN Respond(s, 404, "error")
              ELSE [Respond(s, 200, "fullResult") EXCEPT
                       ![s].touched = @ \cup ids,
                       ![s].returned = ids]
    /\ UNCHANGED <<history, cached, owner, nextId, requests, failures>>
    /\ UNCHANGED <<pipelineVars, call, batchVars>>

(* deleteHistoryEntry and deleteSearchHistory *)

\* await SearchHistory.findOne({ _id: historyId, userId: userId })
FindOne(s) ==
    /\ calls[s].pc = "findOne"
    /\ LET entries == MatchingEntries(calls[s].historyId, calls[s].userId)
       IN  calls' = [calls EXCEPT
                        ![s].found = entries,
                        ![s].touched = @ \cup {e.id : e \in entries},
                        ![s].pc = IF entries = {} THEN "findOneAndDelete"
                                  ELSE "deleteCached"]
    /\ UNCHANGED <<history, cached, owner, nextId, requests, failures>>
    /\ UNCHANGED <<pipelineVars, call, batchVars>>

\* await ScrapedContent.findByIdAndDelete(historyEntry.fullResultId)
DeleteCached(s) ==
    /\ calls[s].pc = "deleteCached"
    /\ LET ids == {e.fullResultId : e \in calls[s].found}
       IN  /\ cached' = cached \ ids
           /\ calls' = [calls EXCEPT ![s].touched = @ \cup (ids \cap cached),
                                     ![s].pc = "findOneAndDelete"]
    /\ UNCHANGED <<history, owner, nextId, requests, failures>>
    /\ UNCHANGED <<pipelineVars, call, batchVars>>

\* await SearchHistory.findOneAndDelete({ _id, userId }); 404 on no result
FindOneAndDelete(s) ==
    /\ calls[s].pc = "findOneAndDelete"
    /\ LET entries == MatchingEntries(calls[s].historyId, calls[s].userId)
       IN  /\ history' = history \ entries
           /\ calls' =
                 IF entries = {}
                 THEN Respond(s, 404, "error")
                 ELSE [Respond(s, 200, "message") EXCEPT
                          ![s].touched = @ \cup {e.id : e \in entries}]
    /\ UNCHANGED <<cached, owner, nextId, requests, failures>>
    /\ UNCHANGED <<pipelineVars, call, batchVars>>

(* clearAllHistory and deleteAllUserHistory *)

\* await SearchHistory.find({ userId }); the fullResultIds are collected
FindAll(s) ==
    /\ calls[s].pc = "findAll"
    /\ LET entries == EntriesOf(calls[s].userId)
       IN  calls' = [calls EXCEPT
                        ![s].found = entries,
                        ![s].touched = @ \cup {e.id : e \in entries},
                        ![s].pc = IF entries = {} THEN "deleteManyHistory"
                                  ELSE "deleteManyCached"]
    /\ UNCHANGED <<history, cached, owner, nextId, requests, failures>>
    /\ UNCHANGED <<pipelineVars, call, batchVars>>

\* await ScrapedContent.deleteMany({ _id: { $in: fullResultIds } })
DeleteManyCached(s) ==
    /\ calls[s].pc = "deleteManyCached"
    /\ LET ids == {e.fullResultId : e \in calls[s].found}
       IN  /\ cached' = cached \ ids
           /\ calls' = [calls EXCEPT ![s].touched = @ \cup (ids \cap cached),
                                     ![s].pc = "deleteManyHistory"]
    /\ UNCHANGED <<history, owner, nextId, requests, failures>>
    /\ UNCHANGED <<pipelineVars, call, batchVars>>

\* await SearchHistory.deleteMany({ userId }); res.json
DeleteManyHistory(s) ==
    /\ calls[s].pc = "deleteManyHistory"
    /\ LET entries == EntriesOf(calls[s].userId)
       IN  /\ history' = history \ entries
           /\ calls' = [Respond(s, 200, "message") EXCEPT
                           ![s].touched = @ \cup {e.id : e \in entries}]
    /\ UNCHANGED <<cached, owner, nextId, requests, failures>>
    /\ UNCHANGED <<pipelineVars, call, batchVars>>

ServerNext ==
    \E s \in Slots :
        \/ Receive(s)
        \/ DbThrows(s)
        \/ CheckPrompt(s)
        \/ PipelineReturns(s)
        \/ SaveFullContent(s)
        \/ SaveHistory(s)
        \/ SendResult(s)
        \/ FindHistory(s)
        \/ FindOnePopulate(s)
        \/ Populate(s)
        \/ FindOne(s)
        \/ DeleteCached(s)
        \/ FindOneAndDelete(s)
        \/ FindAll(s)
        \/ DeleteManyCached(s)
        \/ DeleteManyHistory(s)

ServerSpec == ServerInit /\ [][ServerNext]_vars

----------------------------------------------------------------------------
(* Properties *)

Last(seq) == seq[Len(seq)]

\* how each member of validatedSources was pushed, in the same order
PushLog == SelectSeq(emitLog, LAMBDA how : how # "dropped")

\* scrapeWebsite is running or has just returned for the candidate Source
InEnrichment ==
    pc \in {"validateUrl", "get", "retryDelay", "analyze", "tags"}

\* GET requests of the current top-level scrapeWebsite call
GetCount == Cardinality({i \in 1..Len(reqLog) : reqLog[i].method = "GET"})

\* scrapeWebsite has returned because a GET was answered 403 with no retry left
EndedOn403 ==
    /\ pc = "analyze"
    /\ reqLog # << >>
    /\ Last(reqLog).method = "GET"
    /\ Last(reqLog).status = 403

\* C1: getEnhancedSmartResponseWithSources never rejects: for every prompt
\* the controller passes on and every outcome of the external services the
\* invocation ends with a result.
C1_NeverRejects == outcome # "rejected"

C3_NoSourceGivesPredefined ==
    (/\ outcome = "resolved"
     /\ \E i \in 1..Len(stages) : stages[i] = "generatePredefinedSources") =>
        /\ result.usedFallback
        /\ result.sources # << >>
        /\ \A i \in 1..Len(result.sources) :
              /\ result.sources[i].predefined
              /\ result.sources[i].verified
              /\ result.sources[i].credibilityScore = 80

\* the string is an absolute http or https URL
C4_IsAbsoluteHttpUrl(url) ==
    /\ url # << >>
    /\ url[1] \in DOMAIN HeadTable
    /\ HeadTable[url[1]].protocol \in {"http:", "https:"}

\* C4: the loop pushes exactly one source for each candidate whose cleaned
\* URL is an absolute http/https URL, whatever probe, fetch and analysis
\* did, and none for any other candidate; when it returns it has gone
\* through every candidate.
C4_OneSourcePerValidUrl ==
    /\ Len(emitLog) <= Len(Sources)
    /\ \A i \in 1..Len(emitLog) :
          (emitLog[i] # "dropped") <=>
              C4_IsAbsoluteHttpUrl(cleanUrl(Sources[i].url))
    /\ Len(validatedSources) = Len(PushLog)
    /\ ((\E i \in 1..Len(stages) :
            stages[i] = "validateAndEnrichSourcesWithScraping")
        /\ sourcesAnalysis.shape # "object")
          => Len(emitLog) = Len(Sources)

\* C4 witness: a candidate with a valid URL whose probe failed was pushed
\* and the candidate javascript:alert(1) after it was dropped.
C4_Witness ==
    /\ Len(emitLog) = 2
    /\ emitLog[1] = "described"
    /\ emitLog[2] = "dropped"
    /\ Sources[2].url = <<"javascript:alert(1)">>
    /\ Len(validatedSources) = 1

\* C5: a candidate whose confidence is below 0.7 is never probed, fetched
\* or analysed.
C5_OnlyConfidentEnriched ==
    InEnrichment =>
        ~(Source.confidence # Undefined /\ Source.confidence[1] < 70)

\* C6: a pushed source has verified = true and contentSource
\* "direct_scraping" exactly when its probe and fetch succeeded; every other
\* pushed source has verified = false and no contentSource of a direct
\* fetch, whatever the generator's reply carried.
C6_VerifiedIffScraped ==
    \A i \in 1..Len(validatedSources) :
        IF PushLog[i] = "scraped"
        THEN /\ validatedSources[i].verified
             /\ validatedSources[i].contentSource = "direct_scraping"
        ELSE /\ ~validatedSources[i].verified
             /\ validatedSources[i].contentSource # "direct_scraping"

\* C7: a source pushed after a failed probe or fetch has credibilityScore
\* max(0.2, calculateCredibilityScore(domain of the cleaned URL, declared
\* sourceType) - 0.3).
C7_PenalizedScorerOutput ==
    \A i \in 1..Len(validatedSources) :
        PushLog[i] # "scraped" =>
            validatedSources[i].credibilityScore =
                Max(20, calculateCredibilityScore(
                            extractDomain(cleanUrl(validatedSources[i].url)),
                            validatedSources[i].sourceType) - 30)

\* C8: every source of a returned result has credibilityScore in [0.1, 1]
\* and neutralityScore and sentimentScore in [0, 1].
C8_ScoresInRange ==
    outcome = "resolved" =>
        \A i \in 1..Len(result.sources) :
            /\ result.sources[i].credibilityScore \in 10..100
            /\ result.sources[i].neutralityScore \in 0..100
            /\ result.sources[i].sentimentScore \in 0..100

C10_Continues(req) ==
    \/ req.method = "HEAD" /\ req.status \in 200..399
    \/ req.method = "GET" /\ req.status = 403

\* C10: scrapeWebsite sends a further request only after a live probe or a
\* 403 from the GET; a timeout, another status, a dead probe or too little
\* content is the last request of the call, which then returns null.
C10_RetryOnlyAfter403 ==
    /\ \A i \in 1..(Len(reqLog) - 1) : C10_Continues(reqLog[i])
    /\ pc \in {"get", "retryDelay"} => C10_Continues(Last(reqLog))
    /\ pc = "retryDelay" => Last(reqLog).method = "GET"
    /\ pc = "analyze" =>
          (scrapedData = "null" <=>
              ~(/\ Last(reqLog).method = "GET"
                /\ Last(reqLog).status = 200
                /\ Last(reqLog).content = "enough"))

\* C10 witness: after one retry the GET timed out and scrapeWebsite returned
\* null without another request.
C10_Witness ==
    /\ pc = "analyze"
    /\ Len(reqLog) = 4
    /\ reqLog[2].status = 403
    /\ Last(reqLog).method = "GET"
    /\ Last(reqLog).status = 0
    /\ scrapedData = "null"

\* HEAD requests of the current top-level scrapeWebsite call
HeadCount == Cardinality({i \in 1..Len(reqLog) : reqLog[i].method = "HEAD"})

\* C11: for one candidate URL the HEAD request of validateUrl is sent at
\* most once, also when the GET of that URL is retried after a 403.
C11_ProbeAtMostOnce == HeadCount <= 1

\* a tracking parameter of the string: an fbclid or utm_ token that follows
\* a "?" or "&"
TrackingParams(s) ==
    {i \in 2..Len(s) : /\ s[i] \in FbclidTokens \cup UtmTokens
                       /\ s[i - 1] \in {"?", "&"}}

\* C12: cleanUrl is idempotent: cleaning its own output again returns the
\* output unchanged, for every URL string.
C12_CleanUrlIdempotent ==
    call.fn = "cleanUrl" => cleanUrl(call.result) = call.result

\* C13: the output of cleanUrl holds no fbclid parameter, no utm_ parameter
\* and no trailing "?" or "&", for every URL string.
C13_CleanUrlStripsTracking ==
    (call.fn = "cleanUrl" /\ call.result # Null) =>
        /\ TrackingParams(call.result) = {}
        /\ Last(call.result) \notin {"?", "&"}

\* the score the domain's suffix (its last label) stands for; a .com domain
\* is an allow-listed outlet when the label before .com is one
C14_SuffixScore(domain) ==
    IF domain = << >> THEN 50
    ELSE CASE Last(domain) = "edu" -> 90
           [] Last(domain) = "gov" -> 85
           [] Last(domain) = "org" -> 70
           [] Last(domain) = "com" ->
                IF Len(domain) >= 2 /\ domain[Len(domain) - 1] \in
                       {"reuters", "apnews", "bbc", "npr", "pbs"}
                THEN 80 ELSE 60
           [] OTHER -> 50

\* the score of the declared type, 0 for a type the table does not hold
C14_TypeScore(sourceType) ==
    CASE sourceType \in {"academic", "scientific_journal"} -> 90
      [] sourceType = "government" -> 85
      [] sourceType = "established_news" -> 80
      [] sourceType \in {"news", "organization"} -> 70
      [] sourceType = "general" -> 50
      [] OTHER -> 0

\* C14: calculateCredibilityScore(domain, sourceType) is the larger of the
\* score of the domain's suffix and the score of the declared type, clamped
\* to [0.1, 1].
C14_MaxOfSuffixAndType ==
    call.fn = "calculateCredibilityScore" =>
        LET wanted == Max(C14_SuffixScore(call.args[1]),
                          C14_TypeScore(call.args[2]))
        IN  call.result = Max(10, Min(100, wanted))

\* C15: checkPerspectiveBalance(scores) is true exactly when there are at
\* least 3 scores and either some score is above 0.7 and some score below
\* 0.4, or at least half of the scores lie in [0.4, 0.7].
C15_BalanceRule ==
    call.fn = "checkPerspectiveBalance" =>
        LET scores == call.args[1]
            inBand == {i \in DOMAIN scores : scores[i] \in 40..70}
        IN  call.result <=>
                /\ Len(scores) >= 3
                /\ \/ (\E i \in DOMAIN scores : scores[i] > 70)
                      /\ (\E j \in DOMAIN scores : scores[j] < 40)
                   \/ 2 * Cardinality(inBand) >= Len(scores)

\* C15 witness: [0.1, 0.5, 0.9] was found balanced.
C15_Witness ==
    /\ call.fn = "checkPerspectiveBalance"
    /\ call.args = << <<10, 50, 90>> >>
    /\ call.result = TRUE

\* a <= b, a = b for fractions
FractionLeq(a, b) == a.num * b.den <= b.num * a.den

FractionEq(a, b) == a.num * b.den = b.num * a.den

\* the population variance (mean of the squares minus square of the mean)
\* of a list of scores, as a fraction of 0.0001
C16_Variance(scores) ==
    IF scores = << >> THEN [num |-> 0, den |-> 1]
    ELSE LET n == Len(scores)
             squares == [i \in 1..n |-> scores[i] * scores[i]]
         IN  [num |-> n * Sum(squares) - Sum(scores) * Sum(scores),
              den |-> n * n]

\* score lists the spread of a call's list is compared with
C16_OtherLists == UNION {[1..n -> {10, 50, 150}] : n \in 0..MaxScores}

C17_RatingAgreesWithScore ==
    call.fn = "assessResearchQuality" =>
        /\ call.result.qualityScore \in 0..100
        /\ call.result.rating = "high" <=> call.result.qualityScore > 70
        /\ call.result.rating = "medium" <=>
              call.result.qualityScore \in 41..70
        /\ call.result.rating = "low" <=> call.result.qualityScore <= 40

\* C17 witness: the factors added up to exactly 0.7 and the rating was
\* "medium".
C17_Witness ==
    /\ call.fn = "assessResearchQuality"
    /\ call.result.qualityScore = 70
    /\ call.result.rating = "medium"

\* what the diversity factor added: the qualityScore of the call less the
\* qualityScore of the same call with diversityScore 0
C18_DiversityShare ==
    call.result.qualityScore -
        assessResearchQuality(
            call.args[1],
            [call.args[2] EXCEPT !.diversityScore = [num |-> 0, den |-> 1]]
        ).qualityScore

\* the diversityScore of the call is above the bound (hundredths)
C18_Above(bound) ==
    call.args[2].diversityScore.num >
        100 * bound * call.args[2].diversityScore.den

\* C18 as claimed: the diversity factor adds 0.2 when diversityScore > 0.7,
\* 0.1 when 0.5 < diversityScore <= 0.7 and nothing when it is <= 0.5.
C18_TiersAtHalf ==
    call.fn = "assessResearchQuality" =>
        C18_DiversityShare = IF C18_Above(70) THEN 20
                             ELSE IF C18_Above(50) THEN 10 ELSE 0

\* C18 as amended: the diversity factor adds 0.2 when diversityScore > 0.7,
\* 0.1 when 0.4 < diversityScore <= 0.7 and nothing when it is <= 0.4.
C18_TiersAtFourTenths ==
    call.fn = "assessResearchQuality" =>
        C18_DiversityShare = IF C18_Above(70) THEN 20
                             ELSE IF C18_Above(40) THEN 10 ELSE 0

\* C18 witness: a diversityScore of 0.45 added half of the weight.
C18_Witness ==
    /\ call.fn = "assessResearchQuality"
    /\ call.args[2].diversityScore = [num |-> 4500, den |-> 1]
    /\ C18_DiversityShare = 10

\* positions of a call in the orchestrator's history
StagePositions(name) == {i \in 1..Len(stages) : stages[i] = name}

\* C19: the orchestrator runs the metrics aggregation before the
\* bias-insight call and never after it, and on the path through the
\* predefined sources it makes no bias-insight call.
C19_AggregateThenInsight ==
    /\ \A i \in StagePositions("getBiasAnalysisInsights"),
          j \in StagePositions("calculateSourceMetrics") : j < i
    /\ StagePositions("generatePredefinedSources") # {}
          => StagePositions("getBiasAnalysisInsights") = {}

\* C20: callAI returns exactly the fallback value it was given whenever the
\* generative call throws, the text is missing, longer than 100000
\* characters, not enclosed in JSON delimiters or rejected by the parse; it
\* parses only text that passed the delimiter test; and the fallback values
\* of its callers are {0.5, 0.5}, the empty list and the fixed insight.
C20_FallbackUnlessParsed ==
    call.fn = "callAI" =>
        LET kind == call.args[1]
            failed == \/ kind \in {"throws", "notext", "toolarge"}
                      \/ kind \in {"plain", "scalar"}
                      \/ kind = "badjson"
        IN  /\ failed => call.result.returned = call.args[3]
            /\ ~failed => call.result.returned = call.args[2]
            /\ call.result.parsed => kind \in {"badjson", "json"}
            /\ call.args[3] =
                  CASE call.by = "getNeutralityAndSentiment" ->
                         [neutralityScore |-> <<50>>, sentimentScore |-> <<50>>]
                    [] call.by = "getTagsFromAI" ->
                         [isArray |-> TRUE, items |-> << >>]
                    [] OTHER -> "getFallbackBiasAnalysis()"

\* C20 witness: an oversized, well formed reply to the sentiment analysis
\* gave the fallback {0.5, 0.5} without a parse.
C20_Witness ==
    /\ call.fn = "callAI"
    /\ call.by = "getNeutralityAndSentiment"
    /\ call.args[1] = "toolarge"
    /\ call.result.returned = SentimentFallback
    /\ ~call.result.parsed

\* C21: every predefined source of a returned result has a URL that a
\* liveness probe of the same invocation found live.
C21_PredefinedWereProbed ==
    (outcome = "resolved" /\ result.usedFallback) =>
        \A i \in 1..Len(result.sources) :
            result.sources[i].url \in liveUrls

\* a probe or fetch of the candidate Source is pending
RequestPending == pc \in {"validateUrl", "get", "retryDelay"}

\* C22: while a probe or fetch of one candidate is pending and further
\* candidates wait, the enrichment of the next candidate can start.
C22_NextCanStart ==
    (RequestPending /\ idx < Len(Sources)) => ENABLED EnrichNext

\* Every await of the pipeline ends: a probe or fetch by its timeout, the
\* retry delay after a second, a generative call by returning or failing.
FairSpec == Spec /\ WF_vars(Next)

\* C23: every invocation eventually returns a result.
C23_EventuallyResult == <>(outcome = "resolved")

\* every invocation eventually ends, with a result or a rejection
C23_EventuallyEnds == <>(pc = "done")

\* C24: the extraction keeps every paragraph of at least 50 characters and
\* drops only shorter ones, returns null exactly when the kept paragraphs,
\* joined, have fewer than 100 characters, and otherwise returns a text of at
\* most 8000 characters.
C24_KeepsFiftyAndLonger ==
    call.fn = "scrapeWebsite" =>
        LET claimed == SelectSeq(call.args, LAMBDA n : n >= 50)
        IN  /\ call.result.kept = claimed
            /\ call.result.isNull <=> JoinedLength(claimed) < 100
            /\ ~call.result.isNull => call.result.text <= 8000

\* the parts of C24 that do not depend on where the filter draws its line:
\* null exactly under 100 characters of kept text, text of at most 8000
C24_NullAndCap ==
    call.fn = "scrapeWebsite" =>
        /\ call.result.isNull <=> JoinedLength(call.result.kept) < 100
        /\ ~call.result.isNull => call.result.text <= 8000
        /\ \A i \in 1..Len(call.args) :
              call.args[i] > 50 =>
                  \E j \in 1..Len(call.result.kept) :
                      call.result.kept[j] = call.args[i]

\* C28: whenever the predefined sources are used, the result holds exactly
\* three sources and is rated 'low' with qualityScore 0.35: only the
\* high-credibility and the source-count factors contribute, the overall
\* neutrality being 0.5, the three neutrality scores equal and the source
\* type single.
C28_PredefinedRatedLow ==
    (outcome = "resolved" /\ result.usedFallback) =>
        /\ Len(result.sources) = 3
        /\ \A i \in 1..Len(result.sources) : result.sources[i].predefined
        /\ result.researchQuality.rating = "low"
        /\ result.researchQuality.qualityScore = 35
        /\ result.researchQuality.factors =
               <<"High source credibility", "Adequate source quantity">>
        /\ result.neutralityScore = 50
        /\ result.sourceMetrics.neutralityRange.min =
               result.sourceMetrics.neutralityRange.max
        /\ Cardinality(result.sourceMetrics.sourceTypes) = 1

\* C28 witness: a result built on the predefined health sources was rated
C28_Witness ==
    /\ outcome = "resolved"
    /\ result.usedFallback
    /\ result.researchQuality.rating = "low"
    /\ result.sourceMetrics.sourceTypes = {"medical"}
    /\ Len(result.sources) = 3

\* no more than concurrency requests are in flight
InFlightBound == Cardinality(pending) <= concurrency

\* number of the batch that position k of urls belongs to
BatchOf(k) == (k - 1) \div concurrency

\* while a request is in flight, every request of an earlier batch has
\* settled and its result stands in results
BatchesInTurn ==
    \A k \in pending :
        \A j \in 1..Len(urls) : BatchOf(j) < BatchOf(k) => j <= Len(results)

\* the returned array holds one result per URL, in the order of urls
OneResultPerUrl ==
    bpc = "done" =>
        /\ Len(results) = Len(urls)
        /\ \A k \in 1..Len(urls) : results[k].url = urls[k]

OwnerOf(id) == owner[id]

\* the response of a request carries the data of its own user's documents
ReturnsOwn ==
    \A s \in Slots :
        \A id \in calls[s].returned : OwnerOf(id) = calls[s].userId

\* a step of a request removes documents of its own user only
DeletesOwn ==
    \A s \in Slots :
        calls'[s] # calls[s] =>
            /\ \A e \in history \ history' : e.userId = calls[s].userId
            /\ \A id \in cached \ cached' : OwnerOf(id) = calls[s].userId

\* C25: a call made with userId A never deletes and never returns a history
\* entry, or the cached full result of an entry, of another user B.
C25_IsolatedPerUser == []ReturnsOwn /\ [][DeletesOwn]_vars

\* C25 witness: a request of one user has deleted an entry while an entry of
\* another user exists
C25_Witness ==
    \E s \in Slots :
        /\ calls[s].route = "deleteHistoryEntry"
        /\ calls[s].responses = <<Response(200, "message")>>
        /\ \E e \in history : e.userId # calls[s].userId

\* C26: a request to a history route that carries no authenticated user is
\* answered with 401 and reads or changes no history entry.
C26_NoUserIsRefused ==
    \A s \in Slots :
        (calls[s].route \in HistoryRoutes /\ calls[s].user = Undefined) =>
            /\ calls[s].touched = {}
            /\ calls[s].pc = "done" =>
                   calls[s].responses = <<Response(401, "error")>>

\* the responses with status 200 of the request in slot s
Sent200(s) ==
    {k \in 1..Len(calls[s].responses) : calls[s].responses[k].status = 200}

\* C27: processUserPrompt sends exactly one response per request, the 200
\* with the result only after saveSearchHistory has returned; when the
\* pipeline returns nothing or the save throws, the one response is a 500.
C27_OneResponseAfterSave ==
    \A s \in Slots :
        calls[s].route = "processUserPrompt" =>
            /\ Len(calls[s].responses) <= 1
            /\ calls[s].pc = "done" => Len(calls[s].responses) = 1
            /\ Sent200(s) # {} => calls[s].saved
            /\ (calls[s].pc = "done"
                   /\ (calls[s].pipeline = "null" \/ calls[s].threw)) =>
                   calls[s].responses = <<Response(500, "error")>>

\* C27 witness: one request was answered 200 after its save, another was
\* answered 500 after its save had thrown
C27_Witness ==
    \E s, t \in Slots :
        /\ calls[s].route = "processUserPrompt"
        /\ calls[s].responses = <<Response(200, "result")>>
        /\ calls[s].saved
        /\ calls[t].route = "processUserPrompt"
        /\ calls[t].threw
        /\ calls[t].responses = <<Response(500, "error")>>

\* no request is being handled
AllComplete == \A s \in Slots : calls[s].pc \in {"idle", "done"}

\* every fullResultId names a cached document
NoDanglingResult == \A e \in history : e.fullResultId \in cached

\* every cached document is named by an entry
NoOrphanResult == \A id \in cached : \E e \in history : e.fullResultId = id

\* C30: once all calls have completed (no database operation having
\* thrown), every entry's fullResultId names an existing cached result and
\* every cached result is named by an entry.
C30_CollectionsAgree ==
    (AllComplete /\ failures = 0) => (NoDanglingResult /\ NoOrphanResult)

\* the half of C30 that no interleaving breaks
C30_NoDangling == (AllComplete /\ failures = 0) => NoDanglingResult

====
